---- MODULE Spec2Model ----
(***************************************************************************)
(* A model of the amp-script mutation synchronisation engine:              *)
(*   - AmpScript.mutationPump_ and SanitizerImpl                           *)
(*     (src/extensions/amp-script/0.1/amp-script.js)                       *)
(*   - the renderer: identity map, node materializer, mutation queue and   *)
(*     scheduler, event proxy (src/unnamed/part_000, lines 30-439)         *)
(***************************************************************************)
EXTENDS Integers, Sequences, FiniteSets, TLC

(***************************************************************************)
(* Part 1.  AmpScript.mutationPump_ (admission controller)                 *)
(***************************************************************************)

VARIABLES
  classList,      \* this.element.classList, restricted to the two marks
  vsyncTasks,     \* callbacks handed to this.vsync_.mutate, in order
  workerAlive,    \* FALSE once this.workerDom_.terminate() ran
  userActive,     \* this.userActivation_.isActive()
  layout,         \* this.getLayout()
  boxHeight,      \* this.getLayoutBox().height
  iframe_,        \* this.iframe_ is set (iframe isolation mode)
  pumped,         \* number of mutationPump_ calls so far
  lastPump,       \* what the latest call was given and what it read
  flushed,        \* batches whose flushMutations() has run
  fitted          \* the iframe was resized to fit its content

pumpVars == <<classList, vsyncTasks, workerAlive, userActive, layout,
              boxHeight, iframe_, pumped, lastPump, flushed, fitted>>

\* const MAX_FREE_MUTATION_HEIGHT = 300
MAX_FREE_MUTATION_HEIGHT == 300

\* Phase = {HYDRATING: 1, MUTATING: 2}
HYDRATING == 1
MUTATING == 2

HYDRATED == "i-amphtml-hydrated"
BROKEN == "i-amphtml-broken"

\* Number of batches the worker sends in one session.
MaxPumps == 3

\* Layouts an amp-script element supports (isLayoutSupported).
Layouts == {"container", "fixed", "responsive"}

\* Layout-box heights around the free-mutation threshold.
Heights == {MAX_FREE_MUTATION_HEIGHT - 1, MAX_FREE_MUTATION_HEIGHT,
            MAX_FREE_MUTATION_HEIGHT + 1}

\* isLayoutSizeDefined of src/layout: every supported layout but container.
isLayoutSizeDefined(l) == l \in {"fixed", "responsive"}

\* const allowMutation = (phase != MUTATING || isActive() || (sizeDefined && height <= MAX))
allowMutation_strict(phase, active, l, h) ==
  \/ phase /= MUTATING
  \/ active
  \/ (isLayoutSizeDefined(l) /\ h < MAX_FREE_MUTATION_HEIGHT)

allowMutation(phase, active, l, h) ==
  \/ phase /= MUTATING
  \/ active
  \/ (isLayoutSizeDefined(l) /\ h <= MAX_FREE_MUTATION_HEIGHT)

NoPump == [phase |-> 0, active |-> FALSE, layout |-> "none", height |-> 0]

InitPump ==
  /\ classList = {}
  /\ vsyncTasks = <<>>
  /\ workerAlive = TRUE
  /\ userActive \in BOOLEAN
  /\ layout \in Layouts
  /\ boxHeight \in Heights
  /\ iframe_ \in BOOLEAN
  /\ pumped = 0
  /\ lastPump = NoPump
  /\ flushed = {}
  /\ fitted = FALSE

\* The phases worker-dom passes to the pump.
Phases == {HYDRATING, MUTATING}

\* mutationPump_(flushMutations, phase), called by worker-dom for each batch
\* a live worker sends; `pumped + 1` names the batch flushMutations applies.
mutationPump_(phase) ==
  /\ workerAlive
  /\ pumped < MaxPumps
  /\ LET batch == pumped + 1
         \* if (phase == Phase.HYDRATING) vsync_.mutate(() => classList.add(...))
         scheduled == vsyncTasks \o
                      (IF phase = HYDRATING
                         THEN <<[kind |-> "addHydrated", batch |-> batch]>>
                         ELSE <<>>)
     IN /\ pumped' = batch
        /\ lastPump' = [phase |-> phase, active |-> userActive, layout |-> layout,
                        height |-> boxHeight]
        /\ IF allowMutation(phase, userActive, layout, boxHeight)
             THEN /\ vsyncTasks' = Append(scheduled, [kind |-> "flush", batch |-> batch])
                  /\ UNCHANGED <<classList, workerAlive>>
             ELSE /\ vsyncTasks' = scheduled
                  \* this.workerDom_.terminate()
                  /\ workerAlive' = FALSE
                  /\ classList' = (classList \ {HYDRATED}) \cup {BROKEN}
  /\ UNCHANGED <<userActive, layout, boxHeight, iframe_, flushed, fitted>>

\* The vsync service runs the oldest scheduled mutate callback.
VsyncRun ==
  /\ vsyncTasks /= <<>>
  /\ LET t == Head(vsyncTasks)
     IN \/ /\ t.kind = "addHydrated"
           /\ classList' = classList \cup {HYDRATED}
           /\ vsyncTasks' = Tail(vsyncTasks)
           /\ UNCHANGED <<flushed, fitted>>
        \/ /\ t.kind = "flush"
           /\ flushed' = flushed \cup {t.batch}
           /\ vsyncTasks' =
                Tail(vsyncTasks) \o
                (IF iframe_ /\ layout = "container"
                   THEN <<[kind |-> "fit", batch |-> t.batch]>> ELSE <<>>)
           /\ UNCHANGED <<classList, fitted>>
        \/ /\ t.kind = "fit"
           /\ fitted' = TRUE
           /\ vsyncTasks' = Tail(vsyncTasks)
           /\ UNCHANGED <<classList, flushed>>
  /\ UNCHANGED <<workerAlive, userActive, layout, boxHeight, iframe_, pumped, lastPump>>

\* A user gesture makes the activation tracker active.
UserGesture ==
  /\ ~userActive
  /\ userActive' = TRUE
  /\ UNCHANGED <<classList, vsyncTasks, workerAlive, layout, boxHeight, iframe_,
                 pumped, lastPump, flushed, fitted>>

\* The activation window of the last gesture ends.
ActivationExpires ==
  /\ userActive
  /\ userActive' = FALSE
  /\ UNCHANGED <<classList, vsyncTasks, workerAlive, layout, boxHeight, iframe_,
                 pumped, lastPump, flushed, fitted>>

(***************************************************************************)
(* Part 2.  The document: nodes, attributes and the tree operations of the *)
(* DOM that the renderer and the sanitizer call.                           *)
(***************************************************************************)

VARIABLES
  dom,            \* node handle -> node; handle 0 is the renderer's `root`
  NODES           \* const NODES = new Map(): NodeId -> node handle

\* "no node": null / undefined where a node is expected.
NoNode == -1
\* The handle of `root`, the container the worker's BODY is mounted on.
RootNode == 0

\* A missing attribute or property.
ABSENT == "<absent>"

AttrNames == {"href", "target", "title", "onclick"}
PropNames == {"value", "onclick"}
\* The NodeIds the worker uses. "7" stands for the number 7: a skeleton may
\* carry a numeric __id, and a Map keeps it as a key like any other.
Ids == {"n1", "n2", "n3", "n4", "7"}

ELEMENT_NODE == 1
TEXT_NODE == 3

NoAttrs == [a \in AttrNames |-> ABSENT]
NoProps == [p \in PropNames |-> ABSENT]

\* A freshly created, detached node (document.createElement / createTextNode).
NewNode(tag) ==
  [tag |-> tag, parent |-> NoNode, kids |-> <<>>, attrs |-> NoAttrs,
   props |-> NoProps, id |-> "", data |-> ""]

NoBindings == [i \in Ids |-> NoNode]

Handles(d) == DOMAIN d
IsText(d, h) == d[h].tag = "#text"

\* The element of a singleton set. A value that later steps use several
\* times is bound as The({ ... : v \in {value} }), so it is computed once.
The(S) == CHOOSE x \in S : TRUE

\* The sequence s without its element x.
RECURSIVE Without(_, _)
Without(s, x) ==
  IF s = <<>> THEN <<>>
  ELSE IF Head(s) = x THEN Without(Tail(s), x)
  ELSE <<Head(s)>> \o Without(Tail(s), x)

InSeq(s, x) == \E k \in 1..Len(s) : s[k] = x

IndexOf(s, x) == CHOOSE k \in 1..Len(s) : s[k] = x

\* s with x inserted before position k (k = Len(s) + 1 appends).
InsertAt(s, k, x) == SubSeq(s, 1, k - 1) \o <<x>> \o SubSeq(s, k, Len(s))

\* a is h or an ancestor of h.
RECURSIVE IsAncestorOrSelf(_, _, _)
IsAncestorOrSelf(d, a, h) ==
  IF h = NoNode THEN FALSE
  ELSE IF a = h THEN TRUE
  ELSE IsAncestorOrSelf(d, a, d[h].parent)

\* h is in the document: reachable from the root container.
InDocument(d, h) == IsAncestorOrSelf(d, RootNode, h)

\* h and all its descendants.
Subtree(d, h) == {x \in Handles(d) : IsAncestorOrSelf(d, h, x)}

\* h taken out of its parent's child list, if it has a parent.
Detach(d, h) ==
  IF d[h].parent = NoNode THEN d
  ELSE LET p == d[h].parent
       IN [d EXCEPT ![p].kids = Without(@, h), ![h].parent = NoNode]

\* Node.insertBefore(h, ref) on parent p, for arguments the DOM accepts:
\* h leaves its old parent and is placed before ref, or last when ref is null.
\* insertBefore(h, h) keeps h where it is.
InsertBefore(d, p, h, ref) ==
  LET anchor == IF ref = h
                  THEN (LET ks == d[p].kids
                            k == IndexOf(ks, h)
                        IN IF k < Len(ks) THEN ks[k + 1] ELSE NoNode)
                  ELSE ref
      d1 == Detach(d, h)
      ks1 == d1[p].kids
      pos == IF anchor = NoNode THEN Len(ks1) + 1 ELSE IndexOf(ks1, anchor)
  IN [d1 EXCEPT ![p].kids = InsertAt(ks1, pos, h), ![h].parent = p]

\* Whether Node.insertBefore(h, ref) on p throws: p or h is not a node
\* (TypeError), p cannot have children or h contains p
\* (HierarchyRequestError), ref is not a child of p (NotFoundError).
InsertBeforeThrows(d, p, h, ref) ==
  \/ p = NoNode
  \/ h = NoNode
  \/ IsText(d, p)
  \/ IsAncestorOrSelf(d, h, p)
  \/ (ref /= NoNode /\ d[ref].parent /= p)

\* Whether Node.removeChild(h) on p throws: p or h is not a node (TypeError),
\* h is not a child of p (NotFoundError).
RemoveChildThrows(d, p, h) ==
  \/ p = NoNode
  \/ h = NoNode
  \/ d[h].parent /= p

(***************************************************************************)
(* Part 3.  DOMPurify, as far as its callers depend on it.                 *)
(***************************************************************************)

VARIABLES
  outerHTMLThrows \* this browser throws when outerHTML of a parentless element is set

\* Tags and attributes DOMPurify's default policy does not allow.
ForbiddenTags == {"SCRIPT"}
ForbiddenAttrs == {"onclick"}

CleanAttrs(attrs) ==
  [a \in AttrNames |-> IF a \in ForbiddenAttrs THEN ABSENT ELSE attrs[a]]

\* The node iterator of DOMPurify.sanitize: `todo` holds the nodes still to
\* visit, in document order. A forbidden element is removed from its parent
\* with its content; an allowed one loses its forbidden attributes.
RECURSIVE PurifyWalk(_, _)
PurifyWalk(d, todo) ==
  IF todo = <<>> THEN d
  ELSE LET x == Head(todo)
       IN IF IsText(d, x) THEN PurifyWalk(d, Tail(todo))
          ELSE IF d[x].tag \in ForbiddenTags
            THEN The({PurifyWalk(d1, rest) :
                        d1 \in {Detach(d, x)}, rest \in {Tail(todo)}})
          ELSE The({PurifyWalk(d1, rest) :
                      d1 \in {[d EXCEPT ![x].attrs = CleanAttrs(@)]},
                      rest \in {d[x].kids \o Tail(todo)}})

\* DOMPurify.sanitize(h, {IN_PLACE: true}). A forbidden element that has no
\* parent cannot be removed: removeChild on its null parent fails and the
\* fallback, setting its outerHTML, throws or does nothing, by browser; the
\* walk then goes on into its content.
Purify(d, h, throws) ==
  IF d[h].tag \in ForbiddenTags /\ d[h].parent = NoNode
    THEN IF throws THEN [dom |-> d, err |-> TRUE]
         ELSE [dom |-> PurifyWalk(d, d[h].kids), err |-> FALSE]
    ELSE [dom |-> PurifyWalk(d, <<h>>), err |-> FALSE]

(***************************************************************************)
(* Part 4.  The renderer (src/unnamed/part_000): identity map, node        *)
(* materializer and the apply routines. A heap H is a record               *)
(* [dom, NODES, err, node]: err is TRUE once an exception was thrown,      *)
(* node is the result of the last createNode.                              *)
(***************************************************************************)

\* A reference or a skeleton that is null / undefined.
Null == [null |-> TRUE]
IsNull(r) == "null" \in DOMAIN r
\* A reference that is a string id (typeof nodeOrId == 'string').
Str(id) == [str |-> id]
IsStr(r) == "str" \in DOMAIN r
\* A reference that is a number (typeof nodeOrId == 'number'); 0 is falsy.
Num(id) == [num |-> id]
IsNum(r) == "num" \in DOMAIN r
\* The key `undefined`, which no skeleton of the model carries.
Undefined == "<undefined>"
\* A serialized element reference {nodeName, __id}.
Ref(name, id) == [nodeName |-> name, __id |-> id]
BODY == Ref("BODY", "")

Heap(d, n) == [dom |-> d, NODES |-> n, err |-> FALSE, node |-> NoNode]
Throw(H) == [H EXCEPT !.err = TRUE]

\* NODES.get(id): undefined for a key the map does not hold.
NodesGet(n, id) == IF id \in DOMAIN n THEN n[id] ELSE NoNode

\* function getNode(nodeOrId)
\* A number has no nodeName and no __id: both reads give undefined, and the
\* lookup is NODES.get(undefined).
getNode_noBody(d, n, r) ==
  IF IsNull(r) THEN NoNode
  ELSE IF IsStr(r) THEN NodesGet(n, r.str)
  ELSE IF IsNum(r) THEN (IF r.num = "0" THEN NoNode ELSE NodesGet(n, Undefined))
  ELSE NodesGet(n, r.__id)

getNode(d, n, r) ==
  IF IsNull(r) THEN NoNode
  ELSE IF IsStr(r) THEN NodesGet(n, r.str)
  ELSE IF IsNum(r) THEN (IF r.num = "0" THEN NoNode ELSE NodesGet(n, Undefined))
  ELSE IF r.nodeName = "BODY" THEN RootNode
  ELSE NodesGet(n, r.__id)

\* function bindNodeToSkeletonId(node, id)
bindNodeToSkeletonId(H, h, id) ==
  [H EXCEPT !.dom = [@ EXCEPT ![h].id = id],
            !.NODES = [@ EXCEPT ![id] = h]]

FreshHandle(d) == Cardinality(DOMAIN d)

\* The attributes of a skeleton set on a new element, in order.
RECURSIVE SetAttributes(_, _)
SetAttributes(attrs, list) ==
  IF list = <<>> THEN attrs
  ELSE SetAttributes([attrs EXCEPT ![Head(list).name] = Head(list).value],
                     Tail(list))

RECURSIVE createNode(_, _, _, _)
RECURSIVE CreateChildren(_, _, _, _)

\* The loop over skeleton.childNodes in createNode: each child is created
\* without sanitizing (SANITIZE_IN_PLACE) and appended to `h`.
CreateChildren(H, h, kids, throws) ==
  IF H.err \/ kids = <<>> THEN H
  ELSE The({ IF H1.err THEN H1
             ELSE The({CreateChildren(H2, h, rest, throws) :
                         H2 \in {[H1 EXCEPT !.dom = InsertBefore(@, h, H1.node, NoNode)]},
                         rest \in {Tail(kids)}})
             : H1 \in {createNode(H, Head(kids), FALSE, throws)} })

\* function createNode(skeleton, sanitize = true)
createNode(H, sk, sanitize, throws) ==
  LET h == FreshHandle(H.dom)
      \* if (sanitize && SANITIZE_IN_PLACE) DOMPurify.sanitize(node, ...);
      \* bindNodeToSkeletonId(node, skeleton.__id); return node;
      Finish(H3) ==
        IF H3.err THEN H3
        ELSE IF ~sanitize THEN [bindNodeToSkeletonId(H3, h, sk.__id) EXCEPT !.node = h]
        ELSE The({ IF P.err THEN Throw(H3)
                   ELSE [bindNodeToSkeletonId([H3 EXCEPT !.dom = P.dom], h, sk.__id)
                         EXCEPT !.node = h]
                   : P \in {Purify(H3.dom, h, throws)} })
  IN IF sk.nodeType = TEXT_NODE
       THEN The({Finish(H1) : H1 \in
              {[H EXCEPT !.dom = @ @@ (h :> [NewNode("#text") EXCEPT !.data = sk.data])]}})
     ELSE IF sk.nodeType = ELEMENT_NODE
       THEN \* node.style[i] = styles[s]: `i` is not declared here, so a
            \* skeleton with a non-empty style map throws a ReferenceError
            IF sk.style
              THEN Throw([H EXCEPT !.dom = @ @@ (h :> NewNode(sk.nodeName))])
            ELSE The({ The({Finish(H3) : H3 \in
                              {CreateChildren(H2, h, sk.childNodes, throws)}})
                       : H2 \in {[H EXCEPT !.dom = @ @@
                                   (h :> [NewNode(sk.nodeName) EXCEPT !.attrs =
                                            SetAttributes(@, sk.attributes)])]} })
     \* neither a text nor an element skeleton: `node` stays undefined and
     \* bindNodeToSkeletonId(undefined, id) throws a TypeError
     ELSE Throw(H)

\* MUTATIONS.childList, the loop over removedNodes (last to first).
RECURSIVE RemoveNodes(_, _, _, _)
RemoveNodes(H, parent, removed, i) ==
  IF H.err \/ i = 0 THEN H
  ELSE LET c == getNode(H.dom, H.NODES, removed[i])
       IN IF RemoveChildThrows(H.dom, parent, c) THEN Throw(H)
          ELSE The({RemoveNodes(H1, parent, removed, j) :
                      H1 \in {[H EXCEPT !.dom = Detach(@, c)]}, j \in {i - 1}})

\* MUTATIONS.childList, the loop over addedNodes.
RECURSIVE AddNodes(_, _, _, _, _)
AddNodes(H, parent, added, nextSibling, throws) ==
  IF H.err \/ added = <<>> THEN H
  ELSE LET found == getNode(H.dom, H.NODES, Head(added))
           \* parent.insertBefore(newNode, nextSibling && getNode(nextSibling) || null)
           Insert(H1) ==
             LET ref == getNode(H1.dom, H1.NODES, nextSibling)
             IN IF H1.err THEN H1
                ELSE IF InsertBeforeThrows(H1.dom, parent, H1.node, ref) THEN Throw(H1)
                ELSE The({AddNodes(H2, parent, rest, nextSibling, throws) :
                            H2 \in {[H1 EXCEPT !.dom = InsertBefore(@, parent, H1.node, ref)]},
                            rest \in {Tail(added)}})
       IN The({Insert(H1) : H1 \in
                 {IF found = NoNode
                    THEN createNode(H, Head(added), TRUE, throws)
                    ELSE [H EXCEPT !.node = found]}})

\* MUTATIONS.childList({target, removedNodes, addedNodes, nextSibling})
childList(H, m, throws) ==
  LET parent == getNode(H.dom, H.NODES, m.target)
  IN The({AddNodes(H1, parent, m.addedNodes, m.nextSibling, throws) :
            H1 \in {RemoveNodes(H, parent, m.removedNodes, Len(m.removedNodes))}})

\* MUTATIONS.attributes with the sanitizer run on `root` instead of `node`
attributes_purifyRoot(H, m, throws) ==
  LET node == getNode(H.dom, H.NODES, m.target)
  IN IF node = NoNode \/ IsText(H.dom, node) THEN Throw(H)
     ELSE LET d1 == [H.dom EXCEPT ![node].attrs[m.attributeName] = m.value]
          IN The({ IF P.err THEN Throw([H EXCEPT !.dom = d1])
                   ELSE [H EXCEPT !.dom = P.dom]
                   : P \in {Purify(d1, RootNode, throws)} })

\* MUTATIONS.attributes({target, attributeName, value}): the attribute is
\* set, then the node is sanitized in place.
attributes(H, m, throws) ==
  LET node == getNode(H.dom, H.NODES, m.target)
  IN IF node = NoNode \/ IsText(H.dom, node) THEN Throw(H)
     ELSE LET d1 == [H.dom EXCEPT ![node].attrs[m.attributeName] = m.value]
          IN The({ IF P.err THEN Throw([H EXCEPT !.dom = d1])
                   ELSE [H EXCEPT !.dom = P.dom]
                   : P \in {Purify(d1, node, throws)} })

\* MUTATIONS.characterData({target, value}): nodeValue of an element is
\* null and setting it has no effect.
characterData(H, m) ==
  LET node == getNode(H.dom, H.NODES, m.target)
  IN IF node = NoNode THEN Throw(H)
     ELSE IF IsText(H.dom, node)
       THEN [H EXCEPT !.dom = [@ EXCEPT ![node].data = m.value]]
     ELSE H

\* MUTATIONS.properties({target, propertyName, value})
properties(H, m, throws) ==
  LET node == getNode(H.dom, H.NODES, m.target)
  IN IF node = NoNode THEN Throw(H)
     ELSE LET d1 == [H.dom EXCEPT ![node].props[m.propertyName] = m.value]
          IN The({ IF P.err THEN Throw([H EXCEPT !.dom = d1])
                   ELSE [H EXCEPT !.dom = P.dom]
                   : P \in {Purify(d1, node, throws)} })

\* MUTATIONS[mutation.type](mutation): a type MUTATIONS has no entry for is
\* a call of undefined, a TypeError.
ApplyMutation(H, m, throws) ==
  IF m.type = "childList" THEN childList(H, m, throws)
  ELSE IF m.type = "attributes" THEN attributes(H, m, throws)
  ELSE IF m.type = "characterData" THEN characterData(H, m)
  ELSE IF m.type = "properties" THEN properties(H, m, throws)
  ELSE Throw(H)

(***************************************************************************)
(* Part 5.  The renderer's mutation queue and scheduler.                   *)
(***************************************************************************)

VARIABLES
  MUTATION_QUEUE,             \* const MUTATION_QUEUE = []
  timeOfLastUserGesture,      \* let timeOfLastUserGesture = Date.now()
  now,                        \* Date.now()
  REQUIRE_GESTURE_TO_MUTATE,  \* Flags.REQUIRE_GESTURE_TO_MUTATE of this build
  mutationTimer,              \* the timer of `mutationTimer` is pending
  idleCallbacks,              \* requestIdleCallback(processMutations) calls not yet run
  hidden,                     \* elements whose bounding box is outside the viewport
  received,                   \* number of `mutate` messages received
  enqueued,                   \* number of records pushed to MUTATION_QUEUE so far
  applied,                    \* uids of the records whose apply routine completed, in order
  lastPass,                   \* what the latest processMutations call did
  initialRender,              \* let initialRender = true
  aotRoot                     \* document.querySelector('[amp-aot]'), NoNode when absent

\* GESTURE_TO_MUTATION_THRESHOLD = REQUIRE_GESTURE_TO_MUTATE ? 1000 : Infinity
GESTURE_THRESHOLD_MS == 1000

\* latency > GESTURE_TO_MUTATION_THRESHOLD
ExceedsThreshold_ge(flag, latency) == flag /\ latency >= GESTURE_THRESHOLD_MS

ExceedsThreshold(flag, latency) == flag /\ latency > GESTURE_THRESHOLD_MS

\* Whether isElementInViewport(el) throws: a text node without a parent
\* makes `el` null before getBoundingClientRect is called.
ViewportThrows(d, h) == IsText(d, h) /\ d[h].parent = NoNode

\* function isElementInViewport(el): the box of an element that is not in
\* the document is all zeros, which counts as inside the viewport.
isElementInViewport(d, hid, h) ==
  LET el == IF IsText(d, h) THEN d[h].parent ELSE h
  IN ~(el \in hid /\ InDocument(d, el))

\* What one processMutations call did: the queue it found and left, the
\* gesture clock it read, the uids of the records its loop reached, skipped,
\* handed to MUTATIONS (dispatched) and saw return (completed).
NoPass == [ran |-> FALSE, before |-> <<>>, after |-> <<>>, gesture |-> 0,
           examined |-> {}, gestureSkipped |-> {},
           visibilitySkipped |-> {}, dispatched |-> <<>>, completed |-> <<>>,
           timedOut |-> FALSE, threw |-> FALSE]

\* The for loop of processMutations. H is the heap, q the queue, i the
\* 1-based index, budget the number of deadline tests that still find time
\* left, P the record of the pass so far.
RECURSIVE DrainLoop(_, _, _, _, _, _, _, _, _)
DrainLoop(H, q, i, budget, gesture, hid, flag, throws, P) ==
  IF i > Len(q) THEN [H |-> H, q |-> q, P |-> P]
  ELSE IF budget = 0 THEN [H |-> H, q |-> q, P |-> [P EXCEPT !.timedOut = TRUE]]
  ELSE
    LET m == q[i]
        latency == m.timestamp - gesture
        P1 == [P EXCEPT !.examined = @ \cup {m.uid}]
        gated == m.type \in {"characterData", "attributes"}
        target == getNode(H.dom, H.NODES, m.target)
        \* `continue`: on to the next index
        Skip(P2) ==
          The({DrainLoop(H, q, j, b, gesture, hid, flag, throws, P3) :
                 j \in {i + 1}, b \in {budget - 1}, P3 \in {P2}})
    IN IF ExceedsThreshold(flag, latency)
         THEN Skip([P1 EXCEPT !.gestureSkipped = @ \cup {m.uid}])
       ELSE IF gated /\ target /= NoNode /\ ViewportThrows(H.dom, target)
         THEN [H |-> H, q |-> q, P |-> [P1 EXCEPT !.threw = TRUE]]
       ELSE IF gated /\ target /= NoNode /\ ~isElementInViewport(H.dom, hid, target)
         THEN Skip([P1 EXCEPT !.visibilitySkipped = @ \cup {m.uid}])
       ELSE
         \* const mutation = MUTATION_QUEUE.splice(i--, 1)[0];
         \* MUTATIONS[mutation.type](mutation);
         LET q1 == SubSeq(q, 1, i - 1) \o SubSeq(q, i + 1, Len(q))
             P2 == [P1 EXCEPT !.dispatched = Append(@, m.uid)]
         IN The({ IF H1.err
                    THEN [H |-> H1, q |-> q1, P |-> [P2 EXCEPT !.threw = TRUE]]
                    ELSE The({DrainLoop(H1, q2, i, b, gesture, hid, flag, throws, P3) :
                                q2 \in {q1}, b \in {budget - 1},
                                P3 \in {[P2 EXCEPT !.completed = Append(@, m.uid)]}})
                  : H1 \in {ApplyMutation(H, m, throws)} })

\* processMutations(deadline) without the call of processMutationsSoon()
processMutations_noReschedule(H, q, budget, gesture, hid, flag, throws) ==
  The({ [H |-> R.H, q |-> R.q, P |-> [R.P EXCEPT !.after = R.q],
         again |-> FALSE]
        : R \in {DrainLoop(H, q, 1, budget, gesture, hid, flag, throws,
                           [NoPass EXCEPT !.ran = TRUE, !.before = q,
                                          !.gesture = gesture])} })

\* function processMutations(deadline), after clearTimeout(mutationTimer).
\* The result carries the queue, the heap and whether processMutationsSoon()
\* is called at the end (not when an exception left the function early).
processMutations(H, q, budget, gesture, hid, flag, throws) ==
  The({ [H |-> R.H, q |-> R.q, P |-> [R.P EXCEPT !.after = R.q],
         again |-> ~R.P.threw /\ R.P.timedOut /\ Len(R.q) > 0]
        : R \in {DrainLoop(H, q, 1, budget, gesture, hid, flag, throws,
                           [NoPass EXCEPT !.ran = TRUE, !.before = q,
                                          !.gesture = gesture])} })

\* function hydrate(node, skeleton): assertMatchesSkeleton reads
\* node.nodeType, a TypeError when the pre-rendered node has no such child.
RECURSIVE hydrate(_, _, _)
RECURSIVE HydrateChildren(_, _, _, _)

HydrateChildren(H, h, kids, i) ==
  IF H.err \/ i > Len(kids) THEN H
  ELSE LET c == IF i <= Len(H.dom[h].kids) THEN H.dom[h].kids[i] ELSE NoNode
       IN The({HydrateChildren(H1, h, kids, j) :
                 H1 \in {hydrate(H, c, kids[i])}, j \in {i + 1}})

hydrate(H, h, sk) ==
  IF H.err THEN H
  ELSE IF h = NoNode THEN Throw(H)
  ELSE The({HydrateChildren(H1, h, sk.childNodes, 1) :
              H1 \in {bindNodeToSkeletonId(H, h, sk.__id)}})

\* mutation.addedNodes.forEach(n => hydrate(aotRoot, n))
RECURSIVE HydrateAll(_, _, _)
HydrateAll(H, aot, added) ==
  IF H.err \/ added = <<>> THEN H
  ELSE The({HydrateAll(H1, aot, rest) :
              H1 \in {hydrate(H, aot, Head(added))}, rest \in {Tail(added)}})

\* data.mutations.forEach(...) of worker.onmessage while initialRender and
\* aotRoot hold: every record only hydrates.
RECURSIVE HydrateBatch(_, _, _)
HydrateBatch(H, aot, batch) ==
  IF H.err \/ batch = <<>> THEN H
  ELSE The({HydrateBatch(H1, aot, rest) :
              H1 \in {HydrateAll(H, aot, Head(batch).addedNodes)},
              rest \in {Tail(batch)}})

\* The records of a message stamped by the handler: mutation.timestamp = now,
\* and numbered in the order they are pushed.
RECURSIVE Stamp(_, _, _, _)
Stamp(batch, t, first, msg) ==
  IF batch = <<>> THEN <<>>
  ELSE <<[type |-> Head(batch).type, target |-> Head(batch).target,
          removedNodes |-> Head(batch).removedNodes,
          addedNodes |-> Head(batch).addedNodes,
          nextSibling |-> Head(batch).nextSibling,
          attributeName |-> Head(batch).attributeName,
          propertyName |-> Head(batch).propertyName,
          value |-> Head(batch).value,
          timestamp |-> t, uid |-> first, batch |-> msg]>>
       \o Stamp(Tail(batch), t, first + 1, msg)

(***************************************************************************)
(* Part 6.  SanitizerImpl (src/extensions/amp-script/0.1/amp-script.js).   *)
(***************************************************************************)

VARIABLES
  el,             \* the node handed to the sanitizer: [nodeName, attrs, props]
  lastCall,       \* the latest mutateAttribute / mutateProperty call and what it returned
  doc,            \* the nodes sanitize() is called on, and this.wrapper_
  lastSanitize    \* the latest sanitize(node) call and what it returned

sanVars == <<el, lastCall, doc, lastSanitize>>

\* A null `value`: the attribute is to be removed.
NULL == "<null>"

\* String.prototype.toLowerCase on the names the model uses.
toLowerCase(str) ==
  CASE str = "A" -> "a"
    [] str = "DIV" -> "div"
    [] str = "BASE" -> "base"
    [] str = "HREF" -> "href"
    [] str = "Target" -> "target"
    [] str = "onClick" -> "onclick"
    [] OTHER -> str

\* getAllowedTags() of src/purifier: a and div are allowed, base is not.
allowedTags_ == {"a", "div"}

\* validateAttributeChange(purifier, node, attr, value) of src/purifier:
\* event handlers and javascript: URLs are refused.
validateAttributeChange(node, attr, value) ==
  /\ attr \notin ForbiddenAttrs
  /\ value /= "javascript:x"

\* rewriteAttributeValue(tag, attr, value) of src/url-rewrite: a URL
\* attribute is resolved against the document's location.
rewriteAttributeValue(tag, attr, value) ==
  IF attr = "href" /\ value = "/p" THEN "https://origin/p" ELSE value

hasAttribute(node, a) == node.attrs[a] /= ABSENT
setAttribute(node, a, v) == [node EXCEPT !.attrs[a] = v]
removeAttribute(node, a) == [node EXCEPT !.attrs[a] = ABSENT]

\* mutateAttribute(node, attribute, value) without the allowed-tag test
mutateAttribute_anyTag(node, attribute, value) ==
  LET tag == toLowerCase(node.nodeName)
      attr == toLowerCase(attribute)
  IN IF validateAttributeChange(node, attr, value)
       THEN LET n1 == IF value = NULL THEN removeAttribute(node, attr)
                      ELSE setAttribute(node, attr,
                                        rewriteAttributeValue(tag, attr, value))
                n2 == IF tag = "a" /\ hasAttribute(n1, "href")
                         /\ ~hasAttribute(n1, "target")
                        THEN setAttribute(n1, "target", "_top")
                        ELSE n1
            IN [node |-> n2, ok |-> TRUE]
     ELSE [node |-> node, ok |-> FALSE]

\* mutateAttribute(node, attribute, value) with the target check dropped
mutateAttribute_overwritesTarget(node, attribute, value) ==
  LET tag == toLowerCase(node.nodeName)
      attr == toLowerCase(attribute)
  IN IF tag \notin allowedTags_ THEN [node |-> node, ok |-> FALSE]
     ELSE IF validateAttributeChange(node, attr, value)
       THEN LET n1 == IF value = NULL THEN removeAttribute(node, attr)
                      ELSE setAttribute(node, attr,
                                        rewriteAttributeValue(tag, attr, value))
                n2 == IF tag = "a" /\ hasAttribute(n1, "href")
                        THEN setAttribute(n1, "target", "_top")
                        ELSE n1
            IN [node |-> n2, ok |-> TRUE]
     ELSE [node |-> node, ok |-> FALSE]

\* mutateAttribute(node, attribute, value): the node afterwards and the
\* boolean returned.
mutateAttribute(node, attribute, value) ==
  LET tag == toLowerCase(node.nodeName)
      attr == toLowerCase(attribute)
  IN \* if (!this.allowedTags_[tag]) return false;
     IF tag \notin allowedTags_ THEN [node |-> node, ok |-> FALSE]
     ELSE IF validateAttributeChange(node, attr, value)
       THEN LET n1 == IF value = NULL THEN removeAttribute(node, attr)
                      ELSE setAttribute(node, attr,
                                        rewriteAttributeValue(tag, attr, value))
                \* a[href] requires [target], which defaults to _top
                n2 == IF tag = "a" /\ hasAttribute(n1, "href")
                         /\ ~hasAttribute(n1, "target")
                        THEN setAttribute(n1, "target", "_top")
                        ELSE n1
            IN [node |-> n2, ok |-> TRUE]
     ELSE [node |-> node, ok |-> FALSE]

\* mutateProperty(node, property, value) with the assignment moved before
\* the validation
mutateProperty_setsFirst(node, property, value) ==
  LET prop == toLowerCase(property)
  IN [node |-> [node EXCEPT !.props[property] = value],
      ok |-> validateAttributeChange(node, prop, value)]

\* mutateProperty(node, property, value): the node afterwards and the
\* boolean returned. The name is validated in lower case and assigned as
\* given (node[property] = value).
mutateProperty(node, property, value) ==
  LET prop == toLowerCase(property)
  IN IF validateAttributeChange(node, prop, value)
       THEN [node |-> [node EXCEPT !.props[property] = value], ok |-> TRUE]
     ELSE [node |-> node, ok |-> FALSE]

\* Names and values the worker asks the sanitizer to set.
SanAttributes == {"href", "HREF", "target", "Target", "title", "onclick"}
SanProperties == {"value", "onclick", "onClick"}
SanValues == {NULL, "/p", "https://x/", "_blank", "javascript:x"}

NoSanProps == [p \in SanProperties |-> ABSENT]

NoCall == [called |-> FALSE, op |-> "", attribute |-> "", property |-> "",
           value |-> "",
           before |-> [nodeName |-> "", attrs |-> NoAttrs, props |-> NoSanProps],
           ok |-> FALSE]

\* this.wrapper_ = win.document.createElement('div')
wrapper_ == 0
WrapperOnly == (wrapper_ :> NewNode("DIV"))

\* The first child of p, null when it has none.
firstChild(d, p) == IF d[p].kids = <<>> THEN NoNode ELSE Head(d[p].kids)

\* while (this.wrapper_.firstChild) this.wrapper_.removeChild(...)
RECURSIVE EmptyWrapper(_)
EmptyWrapper(d) ==
  IF firstChild(d, wrapper_) = NoNode THEN d
  ELSE EmptyWrapper(Detach(d, firstChild(d, wrapper_)))

\* sanitize(node) without the loop that empties the wrapper
sanitize_keepsWrapper(d, node, throws) ==
  LET useWrapper == d[node].parent = NoNode
      d1 == IF useWrapper THEN InsertBefore(d, wrapper_, node, NoNode) ELSE d
      parent == IF d1[node].parent /= NoNode THEN d1[node].parent ELSE wrapper_
  IN The({ IF P.err
             THEN [dom |-> d1, ok |-> FALSE, threw |-> TRUE, survived |-> TRUE]
           ELSE [dom |-> P.dom,
                 ok |-> firstChild(P.dom, parent) /= NoNode,
                 threw |-> FALSE,
                 survived |-> P.dom[node].parent = parent]
           : P \in {Purify(d1, parent, throws)} })

\* sanitize(node): the nodes afterwards, the boolean returned, whether the
\* purifier threw, and whether `node` was still a child of `parent` when the
\* purifier returned.
sanitize(d, node, throws) ==
  LET useWrapper == d[node].parent = NoNode
      \* if (useWrapper) this.wrapper_.appendChild(node)
      d1 == IF useWrapper THEN InsertBefore(d, wrapper_, node, NoNode) ELSE d
      \* const parent = node.parentNode || this.wrapper_
      parent == IF d1[node].parent /= NoNode THEN d1[node].parent ELSE wrapper_
  IN \* this.purifier_.sanitize(parent)
     The({ IF P.err
             THEN [dom |-> d1, ok |-> FALSE, threw |-> TRUE, survived |-> TRUE]
           \* const clean = parent.firstChild; if (!clean) return false
           ELSE IF firstChild(P.dom, parent) = NoNode
             THEN [dom |-> P.dom, ok |-> FALSE, threw |-> FALSE,
                   survived |-> P.dom[node].parent = parent]
           ELSE [dom |-> IF useWrapper THEN EmptyWrapper(P.dom) ELSE P.dom,
                 ok |-> TRUE, threw |-> FALSE,
                 survived |-> P.dom[node].parent = parent]
           : P \in {Purify(d1, parent, throws)} })

MaxSanitize == 3

NoSanitize == [called |-> FALSE, n |-> 0, node |-> NoNode, useWrapper |-> FALSE,
               before |-> WrapperOnly, ok |-> FALSE, threw |-> FALSE,
               survived |-> FALSE]

\* The nodes worker-dom has built when it calls sanitize: a container with
\* the children 2 and 3, and the parentless element 4 with the text 5.
SanitizerDocument(t2, t3, t4, on3, on4) ==
  WrapperOnly
  @@ (1 :> [NewNode("DIV") EXCEPT !.kids = <<2, 3>>])
  @@ (2 :> [NewNode(t2) EXCEPT !.parent = 1])
  @@ (3 :> [NewNode(t3) EXCEPT !.parent = 1, !.attrs["onclick"] = on3])
  @@ (4 :> [NewNode(t4) EXCEPT !.kids = <<5>>, !.attrs["onclick"] = on4])
  @@ (5 :> [NewNode("#text") EXCEPT !.parent = 4, !.data = "hi"])

InitSanitize ==
  /\ el = [nodeName |-> "DIV", attrs |-> NoAttrs, props |-> NoSanProps]
  /\ lastCall = NoCall
  /\ \E t2 \in {"DIV", "SCRIPT"}, t3 \in {"DIV", "SCRIPT"}, t4 \in {"DIV", "SCRIPT"},
        on3 \in {ABSENT, "x"}, on4 \in {ABSENT, "x"} :
       doc = SanitizerDocument(t2, t3, t4, on3, on4)
  /\ lastSanitize = NoSanitize

\* worker-dom calls sanitizer.sanitize(node)
CallSanitize(node, throws) ==
  /\ lastSanitize.n < MaxSanitize
  /\ node /= wrapper_
  /\ \E R \in {sanitize(doc, node, throws)} :
       /\ doc' = R.dom
       /\ lastSanitize' = [called |-> TRUE, n |-> lastSanitize.n + 1,
                           node |-> node,
                           useWrapper |-> doc[node].parent = NoNode,
                           before |-> doc, ok |-> R.ok, threw |-> R.threw,
                           survived |-> R.survived]
  /\ UNCHANGED <<el, lastCall>>

InitSan ==
  /\ \E tag \in {"A", "DIV", "BASE"}, href \in {ABSENT, "https://x/"},
        target \in {ABSENT, "_blank"} :
       el = [nodeName |-> tag,
             attrs |-> [NoAttrs EXCEPT !["href"] = href, !["target"] = target],
             props |-> NoSanProps]
  /\ lastCall = NoCall
  /\ doc = WrapperOnly
  /\ lastSanitize = NoSanitize

\* worker-dom calls sanitizer.mutateAttribute(node, attribute, value)
CallMutateAttribute(attribute, value) ==
  \E R \in {mutateAttribute(el, attribute, value)} :
    /\ el' = R.node
    /\ lastCall' = [called |-> TRUE, op |-> "attribute", attribute |-> attribute,
                    property |-> "", value |-> value, before |-> el, ok |-> R.ok]
    /\ UNCHANGED <<doc, lastSanitize>>

\* worker-dom calls sanitizer.mutateProperty(node, property, value)
CallMutateProperty(property, value) ==
  \E R \in {mutateProperty(el, property, value)} :
    /\ el' = R.node
    /\ lastCall' = [called |-> TRUE, op |-> "property", attribute |-> "",
                    property |-> property, value |-> value, before |-> el,
                    ok |-> R.ok]
    /\ UNCHANGED <<doc, lastSanitize>>

\* The sanitizer variables of a specification that does not call it.
SanAtRest ==
  /\ el = [nodeName |-> "DIV", attrs |-> NoAttrs, props |-> NoSanProps]
  /\ lastCall = NoCall
  /\ doc = WrapperOnly
  /\ lastSanitize = NoSanitize

(***************************************************************************)
(* The worker's messages. The worker is not trusted: it may send any       *)
(* record; the model draws its batches from the set Batches.               *)
(***************************************************************************)

Text(id, data) ==
  [nodeType |-> TEXT_NODE, nodeName |-> "#text", __id |-> id, data |-> data,
   style |-> FALSE, attributes |-> <<>>, childNodes |-> <<>>]

Elem(tag, id, attrs, kids, style) ==
  [nodeType |-> ELEMENT_NODE, nodeName |-> tag, __id |-> id, data |-> "",
   style |-> style, attributes |-> attrs, childNodes |-> kids]

Rec(type, target) ==
  [type |-> type, target |-> target, removedNodes |-> <<>>, addedNodes |-> <<>>,
   nextSibling |-> Null, attributeName |-> "", propertyName |-> "", value |-> ""]

ChildListRec(target, removed, added, next) ==
  [Rec("childList", target) EXCEPT !.removedNodes = removed,
                                   !.addedNodes = added, !.nextSibling = next]
AttrRec(target, name, value) ==
  [Rec("attributes", target) EXCEPT !.attributeName = name, !.value = value]
TextRec(target, value) == [Rec("characterData", target) EXCEPT !.value = value]
PropRec(target, name, value) ==
  [Rec("properties", target) EXCEPT !.propertyName = name, !.value = value]

\* <div onclick="x">hi</div>, the element n1 with the text n2
SkDiv == Elem("DIV", "n1", <<[name |-> "onclick", value |-> "x"]>>,
              <<Text("n2", "hi")>>, FALSE)
\* <script>evil</script>, the element n3 with the text n4
SkScript == Elem("SCRIPT", "n3", <<>>, <<Text("n4", "evil")>>, FALSE)

\* <span></span> with the numeric id 7
SkSeven == Elem("SPAN", "7", <<>>, <<>>, FALSE)
\* <div>again</div>, the element n3 whose text carries the id n2 once more
SkAgain == Elem("DIV", "n3", <<>>, <<Text("n2", "again")>>, FALSE)

\* <div>hi<!-- -->more</div>, the element n1 with two text children, one
\* more than the pre-rendered element has
SkWide == Elem("DIV", "n1", <<>>, <<Text("n2", "hi"), Text("n3", "more")>>, FALSE)

\* An id no skeleton carries, so never bound.
Unbound == Ref("DIV", "n9")

Batches ==
  { <<ChildListRec(BODY, <<>>, <<SkDiv>>, Null)>>,
    <<AttrRec(Ref("DIV", "n1"), "title", "t"), TextRec(Ref("#text", "n2"), "bye")>>,
    <<AttrRec(Unbound, "title", "t"), PropRec(Ref("DIV", "n1"), "value", "v")>>,
    <<ChildListRec(BODY, <<>>, <<SkScript>>, Null)>>,
    <<ChildListRec(BODY, <<>>, <<SkDiv>>, Unbound),
      ChildListRec(Ref("DIV", "n1"), <<Unbound>>, <<>>, Null)>>,
    <<Rec("bogus", Ref("DIV", "n1")), PropRec(Ref("DIV", "n1"), "value", "w")>> }

\* Messages about the order of records on one target: the element n1 is
\* added; two attribute records on n1 with a childList record between them
\* that takes n1 out of the document; an attribute record on n1 followed by
\* a properties record on n1.
OrderBatches ==
  { <<ChildListRec(BODY, <<>>, <<SkDiv>>, Null)>>,
    <<AttrRec(Ref("DIV", "n1"), "title", "a"),
      ChildListRec(BODY, <<Ref("DIV", "n1")>>, <<>>, Null),
      AttrRec(Ref("DIV", "n1"), "title", "b")>>,
    <<AttrRec(Ref("DIV", "n1"), "title", "a"),
      PropRec(Ref("DIV", "n1"), "value", "v")>> }

\* Messages about node identity: two top-level nodes in one record (the
\* worker's first record lists every child of its body), a skeleton that
\* repeats an id, and a record whose target is a bare number.
IdBatches ==
  { <<ChildListRec(BODY, <<>>, <<SkDiv, SkSeven>>, Null)>>,
    <<ChildListRec(BODY, <<>>, <<SkAgain>>, Null)>>,
    <<PropRec(Num("7"), "value", "v")>> }

\* Messages about the gates and the first render: the element n1 is added
\* and its title set in one message; an event-handler property is set on
\* n1; the skeleton of the first render has a child the pre-rendered
\* element lacks.
GateBatches ==
  { <<ChildListRec(BODY, <<>>, <<SkDiv>>, Null),
      AttrRec(Ref("DIV", "n1"), "title", "a")>>,
    <<PropRec(Ref("DIV", "n1"), "onclick", "x")>>,
    <<ChildListRec(BODY, <<>>, <<SkWide>>, Null)>> }

(***************************************************************************)
(* Part 7.  The apply routines on sequences of records: one sequence is    *)
(* applied in its order (heapA) and in a permuted order (heapB).           *)
(***************************************************************************)

VARIABLES
  permRecs,       \* the records, in their original order
  permOrder,      \* a permutation of their indices
  permPos,        \* the next position to apply
  heapA,          \* the heap after permRecs[1..permPos-1]
  heapB           \* the heap after permRecs[permOrder[1..permPos-1]]

permVars == <<permRecs, permOrder, permPos, heapA, heapB>>

\* Longest sequence of records.
MaxRecs == 3

\* <div n1>hi</div><div n3></div> under the root, and a bound element n4
\* that was hydrated with an onclick attribute and later removed.
PermDocument ==
  (RootNode :> [NewNode("DIV") EXCEPT !.kids = <<1, 3>>])
  @@ (1 :> [NewNode("DIV") EXCEPT !.parent = RootNode, !.kids = <<2>>, !.id = "n1"])
  @@ (2 :> [NewNode("#text") EXCEPT !.parent = 1, !.data = "hi", !.id = "n2"])
  @@ (3 :> [NewNode("DIV") EXCEPT !.parent = RootNode, !.id = "n3"])
  @@ (4 :> [NewNode("DIV") EXCEPT !.id = "n4", !.attrs["onclick"] = "x"])

PermBindings == ("n1" :> 1) @@ ("n2" :> 2) @@ ("n3" :> 3) @@ ("n4" :> 4)

PermPool ==
  { ChildListRec(Ref("DIV", "n1"), <<>>, <<Ref("DIV", "n4")>>, Null),
    ChildListRec(BODY, <<>>, <<Ref("DIV", "n4")>>, Null),
    ChildListRec(Ref("DIV", "n3"), <<>>, <<Ref("DIV", "n4")>>, Null),
    ChildListRec(Ref("DIV", "n1"), <<Ref("#text", "n2")>>, <<>>, Null),
    AttrRec(Ref("DIV", "n3"), "title", "t"),
    TextRec(Ref("#text", "n2"), "bye"),
    PropRec(Ref("DIV", "n4"), "value", "v") }

Injective(f) == \A i, j \in DOMAIN f : f[i] = f[j] => i = j

InitPerm ==
  /\ \E n \in 2..MaxRecs :
       /\ permRecs \in {f \in [1..n -> PermPool] : Injective(f)}
       /\ permOrder \in {f \in [1..n -> 1..n] : Injective(f)}
  /\ permPos = 1
  /\ heapA = Heap(PermDocument, PermBindings)
  /\ heapB = Heap(PermDocument, PermBindings)

\* MUTATIONS[m.type](m) for the next record of each order. An exception
\* ends that routine only: the next record is applied by a later pass.
PermStep ==
  /\ permPos <= Len(permRecs)
  /\ heapA' = ApplyMutation([heapA EXCEPT !.err = FALSE], permRecs[permPos],
                            outerHTMLThrows)
  /\ heapB' = ApplyMutation([heapB EXCEPT !.err = FALSE],
                            permRecs[permOrder[permPos]], outerHTMLThrows)
  /\ permPos' = permPos + 1
  /\ UNCHANGED <<permRecs, permOrder>>

\* Number of `mutate` messages of a session.
MaxMsgs == 2
\* The clock advances in steps of TickMs, MaxTicks times.
TickMs == GESTURE_THRESHOLD_MS
MaxTicks == 2
\* Cap on the idle callbacks pending at once.
MaxIdle == 3

renderVars == <<dom, NODES, outerHTMLThrows, MUTATION_QUEUE, timeOfLastUserGesture,
                now, REQUIRE_GESTURE_TO_MUTATE, mutationTimer, idleCallbacks,
                hidden, received, enqueued, applied, lastPass, initialRender,
                aotRoot>>

\* The root container alone.
EmptyDocument == (RootNode :> NewNode("DIV"))

\* The root container with a pre-rendered <div amp-aot>text</div>.
PrerenderedDocument ==
  (RootNode :> [NewNode("DIV") EXCEPT !.kids = <<1>>])
  @@ (1 :> [NewNode("DIV") EXCEPT !.parent = RootNode, !.kids = <<2>>])
  @@ (2 :> [NewNode("#text") EXCEPT !.parent = 1, !.data = "hi"])

InitRender ==
  /\ aotRoot \in {NoNode, 1}
  /\ dom = IF aotRoot = NoNode THEN EmptyDocument ELSE PrerenderedDocument
  /\ NODES = NoBindings
  /\ outerHTMLThrows \in BOOLEAN
  /\ MUTATION_QUEUE = <<>>
  /\ timeOfLastUserGesture = 0
  /\ now = 0
  /\ REQUIRE_GESTURE_TO_MUTATE \in BOOLEAN
  /\ mutationTimer = FALSE
  /\ idleCallbacks = 0
  /\ hidden = {}
  /\ received = 0
  /\ enqueued = 0
  /\ applied = <<>>
  /\ lastPass = NoPass
  /\ initialRender = TRUE

\* worker.onmessage for a message {type: 'mutate', mutations: batch}
OnMessage(batch) ==
  /\ received < MaxMsgs
  /\ received' = received + 1
  /\ IF initialRender /\ aotRoot /= NoNode
       THEN \E H \in {HydrateBatch(Heap(dom, NODES), aotRoot, batch)} :
               /\ dom' = H.dom
               /\ NODES' = H.NODES
               \* an exception leaves the handler before initialRender = false
               /\ initialRender' = H.err
               /\ UNCHANGED <<MUTATION_QUEUE, enqueued, mutationTimer, idleCallbacks>>
       ELSE \* enqueueMutation(mutation) for each record: push, then
            \* processMutationsSoon()
            /\ MUTATION_QUEUE' =
                 MUTATION_QUEUE \o Stamp(batch, now, enqueued + 1, received + 1)
            /\ enqueued' = enqueued + Len(batch)
            /\ mutationTimer' = TRUE
            /\ idleCallbacks' = idleCallbacks + Len(batch)
            /\ initialRender' = FALSE
            /\ UNCHANGED <<dom, NODES>>
  /\ UNCHANGED <<outerHTMLThrows, timeOfLastUserGesture, now,
                 REQUIRE_GESTURE_TO_MUTATE, hidden, applied, lastPass, aotRoot>>

\* One call processMutations(deadline) whose loop finds time left `budget` times.
Drain(budget, idleBefore) ==
  \E R \in {processMutations(Heap(dom, NODES), MUTATION_QUEUE, budget,
                              timeOfLastUserGesture, hidden,
                              REQUIRE_GESTURE_TO_MUTATE, outerHTMLThrows)} :
     /\ dom' = R.H.dom
     /\ NODES' = R.H.NODES
     /\ MUTATION_QUEUE' = R.q
     /\ applied' = applied \o R.P.completed
     /\ lastPass' = R.P
     \* clearTimeout(mutationTimer) at the start; processMutationsSoon() at
     \* the end sets the timer and requests an idle callback
     /\ mutationTimer' = R.again
     /\ idleCallbacks' = idleBefore + (IF R.again THEN 1 ELSE 0)
     /\ idleCallbacks' <= MaxIdle

\* The timer set by processMutationsSoon fires: processMutations() without a
\* deadline, bounded by the wall clock ((Date.now() - start) > 1), which
\* leaves time for the first record at least.
TimerFires ==
  /\ mutationTimer
  /\ \E budget \in 1..(IF Len(MUTATION_QUEUE) = 0 THEN 1 ELSE Len(MUTATION_QUEUE)) :
       Drain(budget, idleCallbacks)
  /\ UNCHANGED <<outerHTMLThrows, timeOfLastUserGesture, now,
                 REQUIRE_GESTURE_TO_MUTATE, hidden, received, enqueued,
                 initialRender, aotRoot>>

\* An idle callback runs: processMutations(deadline), bounded by
\* deadline.timeRemaining(), which may be 0 from the start.
IdleFires ==
  /\ idleCallbacks > 0
  /\ \E budget \in 0..Len(MUTATION_QUEUE) : Drain(budget, idleCallbacks - 1)
  /\ UNCHANGED <<outerHTMLThrows, timeOfLastUserGesture, now,
                 REQUIRE_GESTURE_TO_MUTATE, hidden, received, enqueued,
                 initialRender, aotRoot>>

\* function proxyEvent(e): the gesture clock is set first. This is all the
\* queue reads of an event; the messages the handler posts are in Part 8.
proxyEvent ==
  /\ timeOfLastUserGesture /= now
  /\ timeOfLastUserGesture' = now
  /\ UNCHANGED <<dom, NODES, outerHTMLThrows, MUTATION_QUEUE, now,
                 REQUIRE_GESTURE_TO_MUTATE, mutationTimer, idleCallbacks, hidden,
                 received, enqueued, applied, lastPass, initialRender, aotRoot>>

\* Time passes.
Tick ==
  /\ now < MaxTicks * TickMs
  /\ now' = now + TickMs
  /\ UNCHANGED <<dom, NODES, outerHTMLThrows, MUTATION_QUEUE,
                 timeOfLastUserGesture, REQUIRE_GESTURE_TO_MUTATE, mutationTimer,
                 idleCallbacks, hidden, received, enqueued, applied, lastPass,
                 initialRender, aotRoot>>

\* The page scrolls: an element of the document that the worker can name
\* leaves or enters the viewport.
Scroll(h) ==
  /\ h /= RootNode
  /\ ~IsText(dom, h)
  /\ InDocument(dom, h)
  /\ dom[h].id /= ""
  /\ hidden' = IF h \in hidden THEN hidden \ {h} ELSE hidden \cup {h}
  /\ UNCHANGED <<dom, NODES, outerHTMLThrows, MUTATION_QUEUE,
                 timeOfLastUserGesture, now, REQUIRE_GESTURE_TO_MUTATE,
                 mutationTimer, idleCallbacks, received, enqueued, applied,
                 lastPass, initialRender, aotRoot>>

\* The renderer variables of a specification that does not run the renderer.
RenderAtRest ==
  /\ aotRoot = NoNode
  /\ dom = EmptyDocument
  /\ NODES = NoBindings
  /\ outerHTMLThrows = FALSE
  /\ MUTATION_QUEUE = <<>>
  /\ timeOfLastUserGesture = 0
  /\ now = 0
  /\ REQUIRE_GESTURE_TO_MUTATE = FALSE
  /\ mutationTimer = FALSE
  /\ idleCallbacks = 0
  /\ hidden = {}
  /\ received = 0
  /\ enqueued = 0
  /\ applied = <<>>
  /\ lastPass = NoPass
  /\ initialRender = TRUE

\* The variables of Part 7 in a specification that does not use them.
PermAtRest ==
  /\ permRecs = <<>>
  /\ permOrder = <<>>
  /\ permPos = 1
  /\ heapA = Heap(EmptyDocument, NoBindings)
  /\ heapB = Heap(EmptyDocument, NoBindings)

\* The pump variables of a specification that does not run the pump.
PumpAtRest ==
  /\ classList = {}
  /\ vsyncTasks = <<>>
  /\ workerAlive = TRUE
  /\ userActive = FALSE
  /\ layout = "container"
  /\ boxHeight = MAX_FREE_MUTATION_HEIGHT
  /\ iframe_ = FALSE
  /\ pumped = 0
  /\ lastPump = NoPump
  /\ flushed = {}
  /\ fitted = FALSE

(***************************************************************************)
(* Part 8.  The event proxy (src/unnamed/part_000): the listeners, the     *)
(* handler proxyEvent and the messages posted to the worker. The user's    *)
(* interactions are the environment: a touch interaction is a touchstart,  *)
(* a touchend and possibly the click the browser derives from them; a      *)
(* mouse interaction is a click alone.                                     *)
(***************************************************************************)

VARIABLES
  listeners,      \* event types proxyEvent is registered for
  touchStart,     \* let touchStart: NoTouch, or the pageX of the last touchstart handled
  posted,         \* the messages handed to worker.postMessage, in order
  finger,         \* "up", "down" (between touchstart and touchend) or "lifted"
  fingerAt,       \* pageX of the touchstart of the current interaction
  interaction,    \* number of the current interaction
  taps,           \* interactions seen by the listeners whose touchend was
                  \* less than 10px from their touchstart
  clicked,        \* interactions seen by the listeners in which the browser
                  \* dispatched a native click
  dispatched      \* number of events the browser has dispatched

eventVars == <<listeners, touchStart, posted, finger, fingerAt, interaction,
               taps, clicked, dispatched>>

\* Events the browser dispatches in a session.
MaxEvents == 5

ELEMENT_EVENTS_TO_PROXY == {"change", "click", "focus", "keydown", "input", "dblclick"}
WINDOW_EVENTS_TO_PROXY == {"hashchange"}

\* if (dist < 10)
TAP_DISTANCE == 10

NoTouch == -1
\* pageX of a touch; pageY is the same for all.
Positions == {0, 9, 10}

\* Math.sqrt(Math.pow(dx, 2) + Math.pow(dy, 2)) with dy = 0
Dist(a, b) == IF a >= b THEN a - b ELSE b - a

\* A message to the worker. native and n tell which browser event of which
\* interaction the message was built from (native is FALSE for a message
\* whose type was re-labeled).
InitMessage == [type |-> "init", event |-> "", native |-> FALSE, n |-> 0]
EventMessage(type, native, n) ==
  [type |-> "event", event |-> type, native |-> native, n |-> n]

\* A browser event: its type, the pageX of its touch and its interaction.
Event(type, x, n) == [type |-> type, pageX |-> x, n |-> n]

\* function proxyEvent(e), from the test on touchStart on: the messages it
\* posts and the value it leaves in touchStart.
proxyEventPosts(e, ts) ==
  IF e.type = "click" /\ ts /= NoTouch
    THEN [posts |-> <<>>, touchStart |-> ts]
  ELSE IF e.type = "touchstart"
    THEN [posts |-> <<EventMessage(e.type, TRUE, e.n)>>, touchStart |-> e.pageX]
  ELSE IF e.type = "touchend" /\ ts /= NoTouch /\ Dist(e.pageX, ts) < TAP_DISTANCE
    THEN [posts |-> <<EventMessage(e.type, TRUE, e.n),
                      EventMessage("click", FALSE, e.n)>>,
          touchStart |-> ts]
  ELSE [posts |-> <<EventMessage(e.type, TRUE, e.n)>>, touchStart |-> ts]

InitEvents ==
  /\ listeners = {}
  /\ touchStart = NoTouch
  /\ posted = <<>>
  /\ finger = "up"
  /\ fingerAt = 0
  /\ interaction = 0
  /\ taps = {}
  /\ clicked = {}
  /\ dispatched = 0

\* The module function with the init message left out
Install_noInit ==
  /\ listeners = {}
  /\ finger /= "down"
  /\ listeners' = ELEMENT_EVENTS_TO_PROXY \cup WINDOW_EVENTS_TO_PROXY
  /\ touchStart' = NoTouch
  /\ timeOfLastUserGesture' = now
  /\ posted' = posted
  /\ UNCHANGED <<finger, fingerAt, interaction, taps, clicked, dispatched>>

\* The module function runs, in one piece as every script does: it
\* registers proxyEvent and ends with postToWorker({type: 'init', ...}).
\* No touch is in progress while it runs.
Install ==
  /\ listeners = {}
  /\ finger /= "down"
  /\ listeners' = ELEMENT_EVENTS_TO_PROXY \cup WINDOW_EVENTS_TO_PROXY
  /\ touchStart' = NoTouch
  /\ timeOfLastUserGesture' = now
  /\ posted' = Append(posted, InitMessage)
  /\ UNCHANGED <<finger, fingerAt, interaction, taps, clicked, dispatched>>

\* The browser dispatches e: proxyEvent runs if it is registered for the
\* type of e.
Dispatch(e) ==
  /\ dispatched < MaxEvents
  /\ dispatched' = dispatched + 1
  /\ IF e.type \in listeners
       THEN \E R \in {proxyEventPosts(e, touchStart)} :
              /\ timeOfLastUserGesture' = now
              /\ posted' = posted \o R.posts
              /\ touchStart' = R.touchStart
       ELSE UNCHANGED <<timeOfLastUserGesture, posted, touchStart>>
  /\ UNCHANGED listeners

\* A finger touches the screen at x: a new interaction.
TouchStart(x) ==
  /\ finger /= "down"
  /\ finger' = "down"
  /\ fingerAt' = x
  /\ interaction' = interaction + 1
  /\ Dispatch(Event("touchstart", x, interaction + 1))
  /\ UNCHANGED <<taps, clicked>>

\* The finger is lifted at x.
TouchEnd(x) ==
  /\ finger = "down"
  /\ finger' = "lifted"
  /\ taps' = IF listeners /= {} /\ Dist(x, fingerAt) < TAP_DISTANCE
               THEN taps \cup {interaction} ELSE taps
  /\ Dispatch(Event("touchend", x, interaction))
  /\ UNCHANGED <<fingerAt, interaction, clicked>>

\* The click the browser derives from the touch interaction just ended.
TouchClick ==
  /\ finger = "lifted"
  /\ finger' = "up"
  /\ clicked' = IF listeners /= {} THEN clicked \cup {interaction} ELSE clicked
  /\ Dispatch(Event("click", fingerAt, interaction))
  /\ UNCHANGED <<fingerAt, interaction, taps>>

\* A mouse click: an interaction of its own.
MouseClick ==
  /\ finger /= "down"
  /\ finger' = "up"
  /\ interaction' = interaction + 1
  /\ clicked' = IF listeners /= {} THEN clicked \cup {interaction + 1} ELSE clicked
  /\ Dispatch(Event("click", 0, interaction + 1))
  /\ UNCHANGED <<fingerAt, taps>>

\* A key is pressed.
KeyDown ==
  /\ Dispatch(Event("keydown", 0, interaction))
  /\ UNCHANGED <<finger, fingerAt, interaction, taps, clicked>>

\* The event variables of a specification that does not run the proxy: the
\* module function has run and no event was dispatched.
EventsAtRest ==
  /\ listeners = ELEMENT_EVENTS_TO_PROXY \cup WINDOW_EVENTS_TO_PROXY
  /\ touchStart = NoTouch
  /\ posted = <<InitMessage>>
  /\ finger = "up"
  /\ fingerAt = 0
  /\ interaction = 0
  /\ taps = {}
  /\ clicked = {}
  /\ dispatched = 0

\* The renderer variables proxyEvent does not write.
renderRest == <<dom, NODES, outerHTMLThrows, MUTATION_QUEUE, now,
                REQUIRE_GESTURE_TO_MUTATE, mutationTimer, idleCallbacks, hidden,
                received, enqueued, applied, lastPass, initialRender, aotRoot>>

(***************************************************************************)
(* Part 9.  AmpScript.layoutCallback: the two scripts are fetched, the     *)
(* author script is measured, and worker-dom's upgrade() is given the      *)
(* promise of the result.                                                  *)
(***************************************************************************)

VARIABLES
  layoutStep,       \* "built", "fetching", "fetched" or "upgraded"
  authorLength,     \* authorScript.length
  fetchResult,      \* what fetchPromise resolved with: "pending", "empty" ([]) or "scripts"
  workerDom_,       \* this.workerDom_ is set to a worker
  userActivation_   \* this.userActivation_ is set to a tracker

layoutVars == <<layoutStep, authorLength, fetchResult, workerDom_, userActivation_>>

MAX_SCRIPT_SIZE == 150000

ScriptSizes == {MAX_SCRIPT_SIZE - 1, MAX_SCRIPT_SIZE, MAX_SCRIPT_SIZE + 1}

\* The size test with >= for >
ScriptResult_ge(length) ==
  IF length >= MAX_SCRIPT_SIZE THEN "empty" ELSE "scripts"

\* if (authorScript.length > MAX_SCRIPT_SIZE) return []; else
\* return [workerScript, authorScript];
ScriptResult(length) ==
  IF length > MAX_SCRIPT_SIZE THEN "empty" ELSE "scripts"

\* The element is built and laid out for the first time; no worker exists.
InitLayout ==
  /\ layoutStep = "built"
  /\ authorLength \in ScriptSizes
  /\ fetchResult = "pending"
  /\ workerDom_ = FALSE
  /\ userActivation_ = FALSE
  /\ classList = {}
  /\ vsyncTasks = <<>>
  /\ workerAlive = FALSE
  /\ userActive \in BOOLEAN
  /\ layout \in Layouts
  /\ boxHeight \in Heights
  /\ iframe_ \in BOOLEAN
  /\ pumped = 0
  /\ lastPump = NoPump
  /\ flushed = {}
  /\ fitted = FALSE

\* layoutCallback(): starts the fetches, builds the configuration, calls
\* upgrade(baseElement, fetchPromise, workerConfig), creates the activation
\* tracker and returns a resolved promise.
layoutCallback ==
  /\ layoutStep = "built"
  /\ layoutStep' = "fetching"
  /\ userActivation_' = TRUE
  /\ UNCHANGED <<authorLength, fetchResult, workerDom_, pumpVars>>

\* Both fetches resolved: the callback given to Promise.all(...).then
FetchResolved ==
  /\ layoutStep = "fetching"
  /\ layoutStep' = "fetched"
  /\ fetchResult' = ScriptResult(authorLength)
  /\ UNCHANGED <<authorLength, workerDom_, userActivation_, pumpVars>>

\* upgrade() of worker-dom, once fetchPromise resolved: a worker is created
\* from the two scripts, none when they are missing; then
\* this.workerDom_ = workerDom.
Upgrade ==
  /\ layoutStep = "fetched"
  /\ layoutStep' = "upgraded"
  /\ workerDom_' = (fetchResult = "scripts")
  /\ workerAlive' = (fetchResult = "scripts")
  /\ UNCHANGED <<authorLength, fetchResult, userActivation_, classList,
                 vsyncTasks, userActive, layout, boxHeight, iframe_, pumped,
                 lastPump, flushed, fitted>>

\* The layout variables of a specification that starts with a worker running.
LayoutAtRest ==
  /\ layoutStep = "upgraded"
  /\ authorLength = MAX_SCRIPT_SIZE
  /\ fetchResult = "scripts"
  /\ workerDom_ = TRUE
  /\ userActivation_ = TRUE

vars == <<pumpVars, renderVars, sanVars, permVars, eventVars, layoutVars>>

NextPump ==
  \/ (\E phase \in Phases : mutationPump_(phase)) /\ UNCHANGED <<renderVars, sanVars, permVars, eventVars, layoutVars>>
  \/ VsyncRun /\ UNCHANGED <<renderVars, sanVars, permVars, eventVars, layoutVars>>
  \/ UserGesture /\ UNCHANGED <<renderVars, sanVars, permVars, eventVars, layoutVars>>
  \/ ActivationExpires /\ UNCHANGED <<renderVars, sanVars, permVars, eventVars, layoutVars>>

PumpSession == InitPump /\ RenderAtRest /\ SanAtRest /\ PermAtRest /\ EventsAtRest /\ LayoutAtRest

SpecPump == PumpSession /\ [][NextPump]_vars

\* A vsync callback that flushes batch b is scheduled or has run.
FlushScheduled(b) ==
  \/ b \in flushed
  \/ \E i \in DOMAIN vsyncTasks :
       vsyncTasks[i].kind = "flush" /\ vsyncTasks[i].batch = b

\* C1: the latest mutationPump_ call has scheduled the flush of its batch if
\* and only if its phase was not MUTATING, or the activation tracker was
\* active, or the layout was size-defined with a layout-box height of at
\* most 300; and it has terminated the worker exactly when it has not.
C1_AdmissionRule ==
  pumped > 0 =>
    LET rule == \/ lastPump.phase /= 2
                \/ lastPump.active
                \/ (lastPump.layout \in {"fixed", "responsive"}
                    /\ lastPump.height <= 300)
    IN /\ rule <=> FlushScheduled(pumped)
       /\ rule <=> workerAlive
       /\ lastPump.phase = 1 => FlushScheduled(pumped)

\* A MUTATING batch, no activation, size-defined layout of height exactly
\* 300: admitted.
C1_Witness ==
  /\ pumped > 0
  /\ lastPump.phase = 2
  /\ ~lastPump.active
  /\ lastPump.layout = "fixed"
  /\ lastPump.height = 300
  /\ FlushScheduled(pumped)

\* C2: in every state after a rejection the host carries the broken mark
\* and does not carry the hydrated mark.
C2_BrokenInsteadOfHydrated ==
  ~workerAlive => (BROKEN \in classList /\ HYDRATED \notin classList)

\* C3: once a batch has been rejected, no flush is executed any more.
C3_RejectionIsTerminal ==
  [][~workerAlive => flushed' = flushed]_vars

NextRender ==
  \/ (\E b \in Batches : OnMessage(b)) /\ UNCHANGED <<pumpVars, sanVars, permVars, eventVars, layoutVars>>
  \/ TimerFires /\ UNCHANGED <<pumpVars, sanVars, permVars, eventVars, layoutVars>>
  \/ IdleFires /\ UNCHANGED <<pumpVars, sanVars, permVars, eventVars, layoutVars>>
  \/ proxyEvent /\ UNCHANGED <<pumpVars, sanVars, permVars, eventVars, layoutVars>>
  \/ Tick /\ UNCHANGED <<pumpVars, sanVars, permVars, eventVars, layoutVars>>
  \/ (\E h \in DOMAIN dom : Scroll(h)) /\ UNCHANGED <<pumpVars, sanVars, permVars, eventVars, layoutVars>>

RenderSession == InitRender /\ PumpAtRest /\ SanAtRest /\ PermAtRest /\ EventsAtRest /\ LayoutAtRest

SpecRender == RenderSession /\ [][NextRender]_vars

\* The renderer on the messages of IdBatches.
NextIdentity ==
  \/ (\E b \in IdBatches : OnMessage(b)) /\ UNCHANGED <<pumpVars, sanVars, permVars, eventVars, layoutVars>>
  \/ TimerFires /\ UNCHANGED <<pumpVars, sanVars, permVars, eventVars, layoutVars>>
  \/ IdleFires /\ UNCHANGED <<pumpVars, sanVars, permVars, eventVars, layoutVars>>
  \/ proxyEvent /\ UNCHANGED <<pumpVars, sanVars, permVars, eventVars, layoutVars>>
  \/ Tick /\ UNCHANGED <<pumpVars, sanVars, permVars, eventVars, layoutVars>>
  \/ (\E h \in DOMAIN dom : Scroll(h)) /\ UNCHANGED <<pumpVars, sanVars, permVars, eventVars, layoutVars>>

IdentitySession == InitRender /\ PumpAtRest /\ SanAtRest /\ PermAtRest /\ EventsAtRest /\ LayoutAtRest

SpecIdentity == IdentitySession /\ [][NextIdentity]_vars

\* The renderer on the messages of OrderBatches.
NextOrder ==
  \/ (\E b \in OrderBatches : OnMessage(b)) /\ UNCHANGED <<pumpVars, sanVars, permVars, eventVars, layoutVars>>
  \/ TimerFires /\ UNCHANGED <<pumpVars, sanVars, permVars, eventVars, layoutVars>>
  \/ IdleFires /\ UNCHANGED <<pumpVars, sanVars, permVars, eventVars, layoutVars>>
  \/ proxyEvent /\ UNCHANGED <<pumpVars, sanVars, permVars, eventVars, layoutVars>>
  \/ Tick /\ UNCHANGED <<pumpVars, sanVars, permVars, eventVars, layoutVars>>
  \/ (\E h \in DOMAIN dom : Scroll(h)) /\ UNCHANGED <<pumpVars, sanVars, permVars, eventVars, layoutVars>>

OrderSession ==
  InitRender /\ PumpAtRest /\ SanAtRest /\ PermAtRest /\ EventsAtRest /\ LayoutAtRest

SpecOrder == OrderSession /\ [][NextOrder]_vars

\* The renderer receiving the messages of GateBatches.
NextGate ==
  \/ (\E b \in GateBatches : OnMessage(b)) /\ UNCHANGED <<pumpVars, sanVars, permVars, eventVars, layoutVars>>
  \/ TimerFires /\ UNCHANGED <<pumpVars, sanVars, permVars, eventVars, layoutVars>>
  \/ IdleFires /\ UNCHANGED <<pumpVars, sanVars, permVars, eventVars, layoutVars>>
  \/ proxyEvent /\ UNCHANGED <<pumpVars, sanVars, permVars, eventVars, layoutVars>>
  \/ Tick /\ UNCHANGED <<pumpVars, sanVars, permVars, eventVars, layoutVars>>
  \/ (\E h \in DOMAIN dom : Scroll(h)) /\ UNCHANGED <<pumpVars, sanVars, permVars, eventVars, layoutVars>>

GateSession ==
  InitRender /\ PumpAtRest /\ SanAtRest /\ PermAtRest /\ EventsAtRest /\ LayoutAtRest

SpecGate == GateSession /\ [][NextGate]_vars

\* Record b, found by the latest pass behind record a in the queue, was
\* applied by that pass and a was left in the queue.
Overtaken(a, b) ==
  /\ a.uid < b.uid
  /\ InSeq(lastPass.completed, b.uid)
  /\ \E k \in DOMAIN lastPass.after : lastPass.after[k].uid = a.uid

\* C17: no pass applies a record while an earlier-enqueued record of the
\* same target and the same variant stays in the queue: records of one
\* target and one variant are applied in their enqueue order.
C17_SameVariantInOrder ==
  \A i, j \in DOMAIN lastPass.before :
    LET a == lastPass.before[i]
        b == lastPass.before[j]
    IN (a.target = b.target /\ a.type = b.type) => ~Overtaken(a, b)

\* C18: no pass applies a properties or childList record for a target while
\* an earlier-enqueued attributes or characterData record for that target
\* stays in the queue.
C18_SameTargetInOrder ==
  \A i, j \in DOMAIN lastPass.before :
    LET a == lastPass.before[i]
        b == lastPass.before[j]
    IN ( /\ a.target = b.target
         /\ a.type \in {"attributes", "characterData"}
         /\ b.type \in {"properties", "childList"} ) => ~Overtaken(a, b)

\* C11: the identity map is one-to-one: no node is the value of two
\* different NodeIds, and the id stored on a node (node.__id) resolves
\* through NODES to that same node.
C11_IdentityOneToOne ==
  /\ \A i, j \in Ids : (NODES[i] /= NoNode /\ NODES[i] = NODES[j]) => i = j
  /\ \A h \in DOMAIN dom : dom[h].id /= "" => NODES[dom[h].id] = h

\* The NodeIds that are numbers.
IntegerIds == {"7"}

\* C12: getNode returns the bound node for every bound string or integer
\* id, the same node for a reference to a bound node, the root for a
\* reference named BODY, and no node for an id that was never bound.
C12_ResolveTotal ==
  /\ \A i \in Ids : NODES[i] /= NoNode =>
       getNode(dom, NODES, IF i \in IntegerIds THEN Num(i) ELSE Str(i)) = NODES[i]
  /\ \A h \in DOMAIN dom :
       (dom[h].id /= "" /\ NODES[dom[h].id] = h) =>
         getNode(dom, NODES, Ref(dom[h].tag, dom[h].id)) = h
  /\ getNode(dom, NODES, BODY) = RootNode
  /\ getNode(dom, NODES, Unbound) = NoNode
  /\ getNode(dom, NODES, Str("n9")) = NoNode
  /\ \A i \in Ids : NODES[i] = NoNode =>
       getNode(dom, NODES, IF i \in IntegerIds THEN Num(i) ELSE Str(i)) = NoNode

\* Record m names the never-bound NodeId as its target, as a removed node
\* or as its sibling anchor.
RefersUnbound(m) ==
  \/ m.target = Unbound
  \/ InSeq(m.removedNodes, Unbound)
  \/ m.nextSibling = Unbound

\* The uid u is the uid of a record of the queue q.
Queued(q, u) == \E k \in DOMAIN q : q[k].uid = u

\* C4: a record that names a never-bound NodeId and is reached by a drain
\* pass is not applied and does not abort the pass: the pass does not throw
\* and the record's apply routine does not complete.
C4_UnboundReferenceNotApplied ==
  \A k \in DOMAIN lastPass.before :
    LET m == lastPass.before[k]
    IN (m.uid \in lastPass.examined /\ RefersUnbound(m)) =>
         (~lastPass.threw /\ ~InSeq(lastPass.completed, m.uid))

\* C5: the skeleton <script>evil</script> sanitizes away as a whole, so
\* outside hydration neither its NodeId nor its text child's NodeId is ever
\* bound and no SCRIPT element is ever reachable from the root.
C5_RejectedSubtreeLeavesNothing ==
  aotRoot = NoNode =>
    /\ NODES["n3"] = NoNode
    /\ NODES["n4"] = NoNode
    /\ \A h \in DOMAIN dom : dom[h].tag = "SCRIPT" => ~InDocument(dom, h)

C9_NoLossNoDuplication ==
  \A u \in 1..enqueued :
    LET inQueue == Cardinality({k \in DOMAIN MUTATION_QUEUE : MUTATION_QUEUE[k].uid = u})
        done == Cardinality({k \in DOMAIN applied : applied[k] = u})
    IN inQueue + done = 1

\* C19: at most one scheduled drain is pending: the timer is single
\* (mutationTimer is cleared before it is set) and so is the idle callback,
\* so that n enqueues without a drain in between lead to one drain.
C19_SingleScheduledDrain ==
  idleCallbacks <= 1

\* C20: a pass that stopped on its deadline examined a proper prefix of the
\* queue it found, left every record behind that prefix in the queue without
\* applying it, and a drain is scheduled again, by the timer and by an idle
\* callback.
C20_DeadlineBoundsPass ==
  (lastPass.ran /\ lastPass.timedOut) =>
    /\ \E k \in 0..(Len(lastPass.before) - 1) :
         /\ lastPass.examined = {lastPass.before[i].uid : i \in 1..k}
         /\ \A i \in (k + 1)..Len(lastPass.before) :
              /\ Queued(lastPass.after, lastPass.before[i].uid)
              /\ ~InSeq(lastPass.dispatched, lastPass.before[i].uid)
    /\ lastPass.after /= <<>>
    /\ mutationTimer
    /\ idleCallbacks >= 1

\* A pass found three records, applied the first, met its deadline and left
\* the other two unexamined; the timer and an idle callback are pending.
C20_Witness ==
  /\ lastPass.ran
  /\ lastPass.timedOut
  /\ Len(lastPass.before) = 3
  /\ lastPass.examined = {lastPass.before[1].uid}
  /\ lastPass.completed = <<lastPass.before[1].uid>>
  /\ Len(lastPass.after) = 2
  /\ mutationTimer
  /\ idleCallbacks >= 1

\* Record m of the queue could be applied by a pass that reached it now: its
\* age passes the gesture gate, its target is bound and is in the viewport.
Appliable(m) ==
  LET target == getNode(dom, NODES, m.target)
  IN /\ ~ExceedsThreshold(REQUIRE_GESTURE_TO_MUTATE,
                          m.timestamp - timeOfLastUserGesture)
     /\ target /= NoNode
     /\ ~ViewportThrows(dom, target)
     /\ isElementInViewport(dom, hidden, target)

\* A call of processMutations is scheduled, by the timer or an idle callback.
DrainPending == mutationTimer \/ idleCallbacks > 0

\* C21: a characterData or attributes record that the latest pass skipped
\* because its target was outside the viewport, and whose target is visible
\* now, is going to be applied without a further message: a drain is
\* scheduled.
C21_SkippedIsAppliedOnceVisible ==
  \A k \in DOMAIN MUTATION_QUEUE :
    (MUTATION_QUEUE[k].uid \in lastPass.visibilitySkipped
     /\ Appliable(MUTATION_QUEUE[k])) => DrainPending

C22_NoBatchOvertaken ==
  \A i, j \in DOMAIN lastPass.before :
    (/\ lastPass.before[i].batch < lastPass.before[j].batch
     /\ InSeq(lastPass.completed, lastPass.before[j].uid))
    => ~Queued(lastPass.after, lastPass.before[i].uid)

\* C23: no live node carries an attribute or property value that the
\* sanitizer's validation refuses: a value is validated before it is
\* written, and a refused value is not written.
C23_OnlyValidatedValues ==
  \A h \in DOMAIN dom :
    InDocument(dom, h) =>
      /\ \A a \in AttrNames :
           dom[h].attrs[a] /= ABSENT =>
             validateAttributeChange(dom[h], a, dom[h].attrs[a])
      /\ \A p \in PropNames :
           dom[h].props[p] /= ABSENT =>
             validateAttributeChange(dom[h], p, dom[h].props[p])

\* C28: hydration happens once and bypasses the queue: with a pre-rendered
\* root the records of the first message are not enqueued and those of the
\* second message are; without one the records of the first message are
\* enqueued.
C28_HydrationOnceThenQueue ==
  /\ (aotRoot /= NoNode /\ received <= 1) => enqueued = 0
  /\ (aotRoot /= NoNode /\ received = 2) => enqueued > 0
  /\ (aotRoot = NoNode /\ received >= 1) => enqueued > 0

NextSan ==
  \/ (\E a \in SanAttributes, v \in SanValues : CallMutateAttribute(a, v))
     /\ UNCHANGED <<pumpVars, renderVars, permVars, eventVars, layoutVars>>
  \/ (\E p \in SanProperties, v \in SanValues : CallMutateProperty(p, v))
     /\ UNCHANGED <<pumpVars, renderVars, permVars, eventVars, layoutVars>>

SanSession == InitSan /\ PumpAtRest /\ RenderAtRest /\ PermAtRest /\ EventsAtRest /\ LayoutAtRest

SpecSan == SanSession /\ [][NextSan]_vars

\* SanitizerImpl.sanitize called on the nodes of SanitizerDocument.
NextSanitize ==
  (\E node \in DOMAIN doc, throws \in BOOLEAN : CallSanitize(node, throws))
    /\ UNCHANGED <<pumpVars, renderVars, permVars, eventVars, layoutVars>>

SanitizeSession ==
  InitSanitize /\ PumpAtRest /\ RenderAtRest /\ PermAtRest /\ EventsAtRest /\ LayoutAtRest

SpecSanitize == SanitizeSession /\ [][NextSanitize]_vars

\* The children of the parent of the sanitized node other than the node.
Siblings ==
  LET p == lastSanitize.before[lastSanitize.node].parent
  IN IF p = NoNode THEN {}
     ELSE {lastSanitize.before[p].kids[k] : k \in DOMAIN lastSanitize.before[p].kids}
          \ {lastSanitize.node}

\* C26: sanitize(node) returns false when the pass removed the node and true
\* when the node survived, for a parentless node and for a node with
\* siblings, and the siblings of an attached node are as they were.
C26_ResultTellsNodeRemoved ==
  (lastSanitize.called /\ ~lastSanitize.threw) =>
    /\ lastSanitize.ok <=> lastSanitize.survived
    /\ \A s \in Siblings : doc[s] = lastSanitize.before[s]

\* C27: after a sanitize call on a parentless node, whatever it returned,
\* the wrapper has no children and the node has no parent.
C27_WrapperLeftEmpty ==
  (lastSanitize.called /\ lastSanitize.useWrapper) =>
    /\ doc[wrapper_].kids = <<>>
    /\ doc[lastSanitize.node].parent = NoNode

\* A third call, on a parentless DIV with a forbidden attribute, accepted
\* after earlier calls: the wrapper was empty before and is empty again.
C27_Witness ==
  /\ lastSanitize.called
  /\ lastSanitize.n = MaxSanitize
  /\ lastSanitize.useWrapper
  /\ lastSanitize.ok
  /\ lastSanitize.survived
  /\ lastSanitize.before[lastSanitize.node].attrs["onclick"] /= ABSENT
  /\ doc[lastSanitize.node].attrs["onclick"] = ABSENT
  /\ lastSanitize.before[wrapper_].kids = <<>>
  /\ doc[wrapper_].kids = <<>>
  /\ doc[lastSanitize.node].parent = NoNode

NextEvents ==
  \/ Install /\ UNCHANGED <<pumpVars, renderRest, sanVars, permVars, layoutVars>>
  \/ (\E x \in Positions : TouchStart(x)) /\ UNCHANGED <<pumpVars, renderRest, sanVars, permVars, layoutVars>>
  \/ (\E x \in Positions : TouchEnd(x)) /\ UNCHANGED <<pumpVars, renderRest, sanVars, permVars, layoutVars>>
  \/ TouchClick /\ UNCHANGED <<pumpVars, renderRest, sanVars, permVars, layoutVars>>
  \/ MouseClick /\ UNCHANGED <<pumpVars, renderRest, sanVars, permVars, layoutVars>>
  \/ KeyDown /\ UNCHANGED <<pumpVars, renderRest, sanVars, permVars, layoutVars>>

\* The page before the module function runs.
EventSession == InitEvents /\ PumpAtRest /\ RenderAtRest /\ SanAtRest /\ PermAtRest /\ LayoutAtRest

SpecEvents == EventSession /\ [][NextEvents]_vars

\* The positions in `posted` of the click messages of interaction k.
ClickMessages(k) ==
  {i \in DOMAIN posted :
     posted[i].type = "event" /\ posted[i].event = "click" /\ posted[i].n = k}

\* C14: for every tap the worker receives exactly one click message, the
\* re-labeled one that directly follows the touchend message of that tap
\* (so the native click of the tap is not forwarded); every native click of
\* an interaction that is not a tap is forwarded.
C14_TapIsOneSynthesizedClick ==
  /\ \A k \in taps :
       \E i \in DOMAIN posted :
         /\ ClickMessages(k) = {i}
         /\ ~posted[i].native
         /\ i > 1
         /\ posted[i - 1] = EventMessage("touchend", TRUE, k)
  /\ \A k \in clicked \ taps : \E i \in ClickMessages(k) : posted[i].native

\* C16: the init message is posted exactly once, it is the first message
\* posted, and proxyEvent is registered for no event before it is posted.
C16_InitFirstAndOnce ==
  /\ listeners = {} => posted = <<>>
  /\ listeners /= {} =>
       /\ Len(posted) >= 1
       /\ posted[1] = InitMessage
       /\ \A i \in 2..Len(posted) : posted[i].type /= "init"

\* Events were proxied after the init message.
C16_Witness ==
  /\ Len(posted) >= 3
  /\ posted[1] = InitMessage
  /\ posted[2] = EventMessage("keydown", TRUE, 1)
  /\ posted[3] = EventMessage("click", TRUE, 2)
  /\ dispatched = MaxEvents

NextLayout ==
  \/ layoutCallback /\ UNCHANGED <<renderVars, sanVars, permVars, eventVars>>
  \/ FetchResolved /\ UNCHANGED <<renderVars, sanVars, permVars, eventVars>>
  \/ Upgrade /\ UNCHANGED <<renderVars, sanVars, permVars, eventVars>>
  \/ (\E phase \in Phases : mutationPump_(phase))
     /\ UNCHANGED <<renderVars, sanVars, permVars, eventVars, layoutVars>>
  \/ VsyncRun /\ UNCHANGED <<renderVars, sanVars, permVars, eventVars, layoutVars>>
  \/ UserGesture /\ UNCHANGED <<renderVars, sanVars, permVars, eventVars, layoutVars>>
  \/ ActivationExpires /\ UNCHANGED <<renderVars, sanVars, permVars, eventVars, layoutVars>>

LayoutSession == InitLayout /\ RenderAtRest /\ SanAtRest /\ PermAtRest /\ EventsAtRest

SpecLayout == LayoutSession /\ [][NextLayout]_vars

C6_AnchorTarget ==
  ( /\ lastCall.called
    /\ lastCall.ok
    /\ lastCall.before.nodeName = "A"
    /\ lastCall.attribute \in {"href", "HREF"}
    /\ lastCall.value /= NULL )
  => IF lastCall.before.attrs["target"] = ABSENT
       THEN el.attrs["target"] = "_top"
       ELSE el.attrs["target"] = lastCall.before.attrs["target"]

\* href set on an anchor that had neither href nor target: target is _top.
C6_Witness ==
  /\ lastCall.called
  /\ lastCall.ok
  /\ lastCall.before.nodeName = "A"
  /\ lastCall.attribute = "HREF"
  /\ lastCall.value = "/p"
  /\ lastCall.before.attrs["target"] = ABSENT
  /\ el.attrs["href"] = "https://origin/p"
  /\ el.attrs["target"] = "_top"

\* C13: whenever mutateAttribute or mutateProperty returns false, no
\* attribute and no property of the node (the implicit target attribute
\* included) was changed by the call.
C13_FailClosed ==
  (lastCall.called /\ ~lastCall.ok) =>
    /\ el.attrs = lastCall.before.attrs
    /\ el.props = lastCall.before.props

\* A refused attribute on an anchor with href and no target whose value
\* property was set before: nothing moved, no target appeared.
C13_Witness ==
  /\ lastCall.called
  /\ ~lastCall.ok
  /\ lastCall.op = "attribute"
  /\ lastCall.attribute = "onclick"
  /\ lastCall.before.nodeName = "A"
  /\ lastCall.before.attrs["href"] /= ABSENT
  /\ lastCall.before.attrs["target"] = ABSENT
  /\ lastCall.before.props["value"] = "_blank"
  /\ lastCall.before.props["onClick"] = ABSENT
  /\ el = lastCall.before

\* C24: a mutateAttribute call on a node whose tag is not on the allow-list
\* returns false and leaves every attribute of the node as it was, whatever
\* the attribute name and value.
C24_OffListTagUntouched ==
  (lastCall.called /\ lastCall.op = "attribute"
   /\ toLowerCase(lastCall.before.nodeName) \notin allowedTags_) =>
    /\ ~lastCall.ok
    /\ el = lastCall.before

\* A BASE element is asked for href = https://x/, a pair the policy accepts
\* on an anchor: refused, href stays absent.
C24_Witness ==
  /\ lastCall.called
  /\ lastCall.op = "attribute"
  /\ lastCall.before.nodeName = "BASE"
  /\ lastCall.attribute = "href"
  /\ lastCall.value = "https://x/"
  /\ validateAttributeChange(lastCall.before, "href", "https://x/")
  /\ lastCall.before.attrs["href"] = ABSENT
  /\ ~lastCall.ok
  /\ el.attrs["href"] = ABSENT

\* C25: a mutateProperty call with a non-null value succeeds exactly when
\* mutateAttribute on the same node with the lower-cased name and the same
\* value would succeed.
C25_PropertyAsAttribute ==
  (lastCall.called /\ lastCall.op = "property" /\ lastCall.value /= NULL) =>
    (lastCall.ok <=> mutateAttribute(lastCall.before,
                                     toLowerCase(lastCall.property),
                                     lastCall.value).ok)

NextPerm == PermStep /\ UNCHANGED <<pumpVars, renderVars, sanVars, eventVars, layoutVars>>

PermSession == InitPerm /\ PumpAtRest /\ RenderAtRest /\ SanAtRest /\ EventsAtRest /\ LayoutAtRest

SpecPerm == PermSession /\ [][NextPerm]_vars

\* The document state below node h: tree structure, attributes, text and
\* properties, without the handles.
RECURSIVE Canon(_, _)
Canon(d, h) ==
  [tag |-> d[h].tag, attrs |-> d[h].attrs, props |-> d[h].props,
   data |-> d[h].data,
   kids |-> [i \in 1..Len(d[h].kids) |-> Canon(d, d[h].kids[i])]]

SameDocument == Canon(heapA.dom, RootNode) = Canon(heapB.dom, RootNode)

PermDone == permPos > Len(permRecs)

DistinctTargets ==
  \A i, j \in DOMAIN permRecs :
    permRecs[i].target = permRecs[j].target => i = j

Range(f) == {f[i] : i \in DOMAIN f}

\* The references of a record: target, removed and added nodes, anchor.
RefsOf(m) ==
  {m.target} \cup Range(m.removedNodes) \cup Range(m.addedNodes)
  \cup (IF IsNull(m.nextSibling) THEN {} ELSE {m.nextSibling})

AllResolved(m) ==
  \A r \in RefsOf(m) : getNode(PermDocument, PermBindings, r) /= NoNode

\* The nodes a record can read or write: the subtrees of the nodes it names.
Touch(m) ==
  UNION {Subtree(PermDocument, getNode(PermDocument, PermBindings, r)) :
           r \in {x \in RefsOf(m) : getNode(PermDocument, PermBindings, x) /= NoNode}}

DisjointSubtrees ==
  /\ \A i \in DOMAIN permRecs : AllResolved(permRecs[i])
  /\ \A i, j \in DOMAIN permRecs :
       i /= j => Touch(permRecs[i]) \cap Touch(permRecs[j]) = {}

\* C10 as stated: records with pairwise different targets, applied in any
\* permutation, give the same final document as in their original order.
C10_AnyOrderSameDocument ==
  (PermDone /\ DistinctTargets) => SameDocument

\* C10 as amended: records that name bound nodes only and whose named
\* nodes' subtrees are pairwise disjoint give the same final document in
\* any permutation.
C10_DisjointSubtreesCommute ==
  (PermDone /\ DisjointSubtrees) => SameDocument

\* A childList record and another record on disjoint subtrees, applied in
\* both orders, with a changed document as the common result.
C10_Witness ==
  /\ PermDone
  /\ DisjointSubtrees
  /\ permOrder /= [i \in DOMAIN permOrder |-> i]
  /\ \E i \in DOMAIN permRecs : permRecs[i].type = "childList"
  /\ SameDocument
  /\ Canon(heapA.dom, RootNode) /= Canon(PermDocument, RootNode)

====
